---- MODULE Spec2Model ----
(***************************************************************************)
(* Model of private-projects/mongo-backup-v2/scripts/metrics-exporter.py:  *)
(* a single-threaded HTTP server whose GET handler reads the backup state  *)
(* file, renders five metric lines and writes them as the response, while  *)
(* an external backup process creates, rewrites and removes that file.     *)
(*                                                                         *)
(* A Python str is a sequence of code points, a bytes object a sequence of *)
(* byte values.  A JSON value is a record [t, s, n] with t one of "absent" *)
(* (key not in the object), "null", "int", "str".                          *)
(***************************************************************************)
EXTENDS Integers, Sequences, FiniteSets, TLC

----------------------------------------------------------------------------
(* Text: literals, str(int), int(str), UTF-8 *)

AsciiChars ==
    <<" ", "!", "\"", "#", "$", "%", "&", "'", "(", ")", "*", "+", ",", "-",
     ".", "/", "0", "1", "2", "3", "4", "5", "6", "7", "8", "9", ":", ";", "<",
     "=", ">", "?", "@", "A", "B", "C", "D", "E", "F", "G", "H", "I", "J", "K",
     "L", "M", "N", "O", "P", "Q", "R", "S", "T", "U", "V", "W", "X", "Y", "Z",
     "[", "\\", "]", "^", "_", "GRAVE", "a", "b", "c", "d", "e", "f", "g", "h",
     "i", "j", "k", "l", "m", "n", "o", "p", "q", "r", "s", "t", "u", "v", "w",
     "x", "y", "z", "{", "|", "}", "~">>

\* Code point of a printable ASCII character, or of "\n".  The table is in code
\* point order from 32; "GRAVE" holds the place of code point 96.
Ord(c) ==
    IF c = "\n" THEN 10
    ELSE 31 + (CHOOSE i \in 1..Len(AsciiChars) : AsciiChars[i] = c)

\* A string literal of the source, as the str it denotes.
Lit(chars) ==
    <<>> \o [i \in 1..Len(chars) |-> Ord(chars[i])]

IsDigit(cp) ==
    cp >= 48 /\ cp <= 57

RECURSIVE NatToStr(_)
NatToStr(n) ==
    IF n < 10 THEN <<48 + n>>
    ELSE Append(NatToStr(n \div 10), 48 + (n % 10))

\* str(n) of a Python int, as an f-string field renders it.
IntToStr(n) ==
    IF n < 0 THEN <<45>> \o NatToStr(0 - n) ELSE NatToStr(n)

RECURSIVE DigitsToNat(_)
DigitsToNat(s) ==
    IF s = <<>> THEN 0
    ELSE 10 * DigitsToNat(SubSeq(s, 1, Len(s) - 1)) + (s[Len(s)] - 48)

AllDigits(s) ==
    s # <<>> /\ \A i \in 1..Len(s) : IsDigit(s[i])

\* int(s) of a str: an optional sign and decimal digits; anything else raises
\* ValueError.  ok = FALSE stands for the raise.
StrToInt(s) ==
    LET signed == s # <<>> /\ s[1] \in {43, 45}
        digits == IF signed THEN SubSeq(s, 2, Len(s)) ELSE s
    IN  IF AllDigits(digits)
        THEN [ok |-> TRUE,
              n  |-> IF signed /\ s[1] = 45 THEN 0 - DigitsToNat(digits)
                     ELSE DigitsToNat(digits)]
        ELSE [ok |-> FALSE, n |-> 0]

IsSurrogate(cp) ==
    cp >= 55296 /\ cp <= 57343

\* The UTF-8 bytes of one code point (not a surrogate).
Utf8Char(cp) ==
    IF cp < 128 THEN <<cp>>
    ELSE IF cp < 2048 THEN <<192 + (cp \div 64), 128 + (cp % 64)>>
    ELSE IF cp < 65536
         THEN <<224 + (cp \div 4096), 128 + ((cp \div 64) % 64), 128 + (cp % 64)>>
    ELSE <<240 + (cp \div 262144), 128 + ((cp \div 4096) % 64),
           128 + ((cp \div 64) % 64), 128 + (cp % 64)>>

RECURSIVE Utf8Bytes(_)
Utf8Bytes(s) ==
    IF s = <<>> THEN <<>>
    ELSE IF Len(s) = 1 THEN Utf8Char(s[1])
    ELSE LET h == Len(s) \div 2
         IN  Utf8Bytes(SubSeq(s, 1, h)) \o Utf8Bytes(SubSeq(s, h + 1, Len(s)))

\* s.encode("utf-8"): raises UnicodeEncodeError on a lone surrogate.
EncodeUtf8(s) ==
    IF \E i \in 1..Len(s) : IsSurrogate(s[i])
    THEN [ok |-> FALSE, bytes |-> <<>>]
    ELSE [ok |-> TRUE, bytes |-> Utf8Bytes(s)]

RECURSIVE Join(_, _)
\* sep.join(parts)
Join(sep, parts) ==
    IF parts = <<>> THEN <<>>
    ELSE IF Len(parts) = 1 THEN parts[1]
    ELSE parts[1] \o sep \o Join(sep, Tail(parts))

----------------------------------------------------------------------------
(* Time: time.strptime(s, "%Y%m%d_%H%M%S") and time.mktime *)

IsLeap(y) ==
    (y % 4 = 0 /\ y % 100 # 0) \/ y % 400 = 0

DaysInMonth(y, m) ==
    IF m = 2 THEN (IF IsLeap(y) THEN 29 ELSE 28)
    ELSE IF m \in {4, 6, 9, 11} THEN 30 ELSE 31

\* time.strptime(s, "%Y%m%d_%H%M%S") on a str of the full fixed width: four
\* digits of year, two of each other field, "_" between date and time; a field
\* out of range or any other shape raises ValueError (ok = FALSE).
Strptime(s) ==
    LET num(a, b) == DigitsToNat(SubSeq(s, a, b))
        shaped == /\ Len(s) = 15
                  /\ \A i \in (1..8) \cup (10..15) : IsDigit(s[i])
                  /\ s[9] = 95
        Y == num(1, 4)
        m == num(5, 6)
        d == num(7, 8)
        H == num(10, 11)
        M == num(12, 13)
        S == num(14, 15)
    IN  IF /\ shaped
           /\ Y >= 1
           /\ m \in 1..12
           /\ d >= 1 /\ d <= DaysInMonth(Y, m)
           /\ H <= 23 /\ M <= 59 /\ S <= 61
        THEN [ok |-> TRUE, Y |-> Y, m |-> m, d |-> d, H |-> H, M |-> M, S |-> S]
        ELSE [ok |-> FALSE, Y |-> 0, m |-> 0, d |-> 0, H |-> 0, M |-> 0, S |-> 0]

\* Days from 1970-01-01 to the civil date y-m-d.
DaysFromCivil(y, m, d) ==
    LET yy  == IF m <= 2 THEN y - 1 ELSE y
        era == yy \div 400
        yoe == yy - era * 400
        mp  == IF m > 2 THEN m - 3 ELSE m + 9
        doy == (153 * mp + 2) \div 5 + d - 1
        doe == yoe * 365 + yoe \div 4 - yoe \div 100 + doy
    IN  era * 146097 + doe - 719468

\* int(time.mktime(tm)), the process's local time zone being UTC.
Mktime(tm) ==
    DaysFromCivil(tm.Y, tm.m, tm.d) * 86400 + tm.H * 3600 + tm.M * 60 + tm.S

----------------------------------------------------------------------------
(* JSON values and the state file *)

JAbsent ==
    [t |-> "absent", s |-> <<>>, n |-> 0]

JNull ==
    [t |-> "null", s |-> <<>>, n |-> 0]

JInt(n) ==
    [t |-> "int", s |-> <<>>, n |-> n]

JStr(s) ==
    [t |-> "str", s |-> s, n |-> 0]

\* bool(v) of a Python value; an absent key reads as None through dict.get.
Truthy(v) ==
    CASE v.t = "str" -> v.s # <<>>
      [] v.t = "int" -> v.n # 0
      [] OTHER -> FALSE

\* int(v): TypeError on None, ValueError on a str that is no number.
PyInt(v) ==
    CASE v.t = "int" -> [ok |-> TRUE, n |-> v.n]
      [] v.t = "str" -> StrToInt(v.s)
      [] OTHER -> [ok |-> FALSE, n |-> 0]

\* str(v), as an f-string field renders v.
PyStr(v) ==
    CASE v.t = "str" -> v.s
      [] v.t = "int" -> IntToStr(v.n)
      [] OTHER -> Lit(<<"N", "o", "n", "e">>)

\* dict.get(key, default) on the value stored under a key.
Get(v, default) ==
    IF v.t = "absent" THEN default ELSE v

STATE_PARSE_ERROR ==
    Lit(<<"s", "t", "a", "t", "e", "_", "p", "a", "r", "s", "e", "_", "e", "r",
        "r", "o", "r">>)

TS_20240101_120000 ==
    Lit(<<"2", "0", "2", "4", "0", "1", "0", "1", "_", "1", "2", "0", "0", "0",
        "0">>)

TS_20240101_120030 ==
    Lit(<<"2", "0", "2", "4", "0", "1", "0", "1", "_", "1", "2", "0", "0", "3",
        "0">>)

TS_19700101_000000 ==
    Lit(<<"1", "9", "7", "0", "0", "1", "0", "1", "_", "0", "0", "0", "0", "0",
        "0">>)

TS_20300101_000000 ==
    Lit(<<"2", "0", "3", "0", "0", "1", "0", "1", "_", "0", "0", "0", "0", "0",
        "0">>)

TS_dashed ==
    Lit(<<"2", "0", "2", "4", "-", "0", "1", "-", "0", "1">>)

DiskFull ==
    Lit(<<"d", "i", "s", "k", " ", "f", "u", "l", "l">>)

\* A state file that is a JSON object with these four keys (JAbsent: no key).
Object(ls, size, total, lf) ==
    [kind |-> "object", last_success |-> ls, last_size_bytes |-> size,
     total_backups |-> total, last_failure |-> lf]

\* A state file that is no JSON object: kind "unreadable" (open or read fails),
\* "malformed" (not JSON), "nonobject" (JSON, but a list or a scalar).
Other(kind) ==
    [kind |-> kind, last_success |-> JAbsent, last_size_bytes |-> JAbsent,
     total_backups |-> JAbsent, last_failure |-> JAbsent]

\* The contents the backup process may leave in the state file.
Files ==
    << Other("unreadable"),
       Other("malformed"),
       Other("nonobject"),
       Object(JAbsent, JAbsent, JAbsent, JAbsent),
       Object(JStr(TS_20240101_120000), JInt(1048576), JInt(42), JAbsent),
       Object(JStr(TS_20240101_120030), JInt(2048), JInt(7), JStr(DiskFull)),
       Object(JStr(TS_20240101_120000), JStr(Lit(<<"a", "b", "c">>)), JInt(3),
              JAbsent),
       Object(JStr(TS_dashed), JInt(5), JInt(1), JAbsent),
       Object(JStr(TS_20300101_000000), JInt(10), JInt(2), JStr(<<>>)),
       Object(JAbsent, JInt(1), JInt(1), JStr(Lit(<<"a", "\n", "b">>))),
       Object(JAbsent, JAbsent, JInt(1), JStr(<<55296>>)),
       Object(JAbsent, JInt(0 - 1), JAbsent, JStr(<<34, 233, 8364, 128512>>)),
       Object(JStr(<<>>), JStr(Lit(<<"1", "2", "3">>)), JInt(0), JInt(5)),
       Object(JStr(TS_19700101_000000), JAbsent, JInt(9), JNull),
       Object(JInt(0), JInt(4096), JNull, JStr(DiskFull)) >>

\* file = Missing: the state file does not exist.
Missing ==
    0

FileStates ==
    0..Len(Files)

----------------------------------------------------------------------------
(* MetricsHandler.build_metrics *)

\* Lines 32-35: the locals before the state file is looked at.
Defaults ==
    [last_success |-> 0, last_size |-> 0, total |-> 0, last_failure |-> JStr(<<>>)]

Exists_always(f) ==
    TRUE

\* STATE_FILE.exists()
Exists(f) ==
    f # Missing

Raise(loc) ==
    [ok |-> FALSE, loc |-> loc]

Ok(loc) ==
    [ok |-> TRUE, loc |-> loc]

\* Line 38: STATE_FILE.read_text() raises when the file is gone or cannot be
\* read, json.loads raises on text that is not JSON.
LoadData(f) ==
    IF f = Missing \/ Files[f].kind \in {"unreadable", "malformed"}
    THEN [ok |-> FALSE, data |-> Other("malformed")]
    ELSE [ok |-> TRUE, data |-> Files[f]]

\* Lines 39-40.  data.get on a list or a scalar raises AttributeError;
\* strptime raises TypeError on a value that is no str, ValueError on a str
\* of another shape.
ExtractLastSuccess(data, loc) ==
    IF data.kind # "object" THEN Raise(loc)
    ELSE LET v == Get(data.last_success, JNull)
         IN  IF ~Truthy(v) THEN Ok(loc)
             ELSE IF v.t # "str" THEN Raise(loc)
             ELSE LET tm == Strptime(v.s)
                  IN  IF tm.ok
                      THEN Ok([loc EXCEPT !.last_success = Mktime(tm)])
                      ELSE Raise(loc)

\* Line 41.
ExtractLastSize(data, loc) ==
    LET r == PyInt(Get(data.last_size_bytes, JInt(0)))
    IN  IF r.ok THEN Ok([loc EXCEPT !.last_size = r.n]) ELSE Raise(loc)

\* Line 42.
ExtractTotal(data, loc) ==
    LET r == PyInt(Get(data.total_backups, JInt(0)))
    IN  IF r.ok THEN Ok([loc EXCEPT !.total = r.n]) ELSE Raise(loc)

\* Line 43: data.get("last_failure", "") or "".
ExtractLastFailure(data, loc) ==
    LET v == Get(data.last_failure, JStr(<<>>))
    IN  Ok([loc EXCEPT !.last_failure = IF Truthy(v) THEN v ELSE JStr(<<>>)])

\* Lines 38-43, statement by statement: the first statement that raises ends
\* the block and leaves the locals as the statements before it set them.
TryBody(f, loc) ==
    LET d == LoadData(f)
    IN  IF ~d.ok THEN Raise(loc)
        ELSE LET r1 == ExtractLastSuccess(d.data, loc)
             IN  IF ~r1.ok THEN r1
                 ELSE LET r2 == ExtractLastSize(d.data, r1.loc)
                      IN  IF ~r2.ok THEN r2
                          ELSE LET r3 == ExtractTotal(d.data, r2.loc)
                               IN  IF ~r3.ok THEN r3
                                   ELSE ExtractLastFailure(d.data, r3.loc)

\* Lines 44-45.
ExceptHandler(loc) ==
    [loc EXCEPT !.last_failure = JStr(STATE_PARSE_ERROR)]

\* Lines 37-45: the locals after the try statement, and whether it raised.
TryExcept(f, loc) ==
    LET r == TryBody(f, loc)
    IN  IF r.ok THEN [raised |-> FALSE, loc |-> r.loc]
        ELSE [raised |-> TRUE, loc |-> ExceptHandler(r.loc)]

PrefixLastSuccess ==
    Lit(<<"m", "o", "n", "g", "o", "_", "b", "a", "c", "k", "u", "p", "_", "l",
        "a", "s", "t", "_", "s", "u", "c", "c", "e", "s", "s", "_", "t", "i", "m",
        "e", "s", "t", "a", "m", "p", " ">>)

PrefixRunAge ==
    Lit(<<"m", "o", "n", "g", "o", "_", "b", "a", "c", "k", "u", "p", "_", "l",
        "a", "s", "t", "_", "r", "u", "n", "_", "a", "g", "e", "_", "s", "e", "c",
        "o", "n", "d", "s", " ">>)

PrefixArchiveBytes ==
    Lit(<<"m", "o", "n", "g", "o", "_", "b", "a", "c", "k", "u", "p", "_", "l",
        "a", "s", "t", "_", "a", "r", "c", "h", "i", "v", "e", "_", "b", "y", "t",
        "e", "s", " ">>)

PrefixTotalRuns ==
    Lit(<<"m", "o", "n", "g", "o", "_", "b", "a", "c", "k", "u", "p", "_", "t",
        "o", "t", "a", "l", "_", "r", "u", "n", "s", " ">>)

PrefixLastFailure ==
    Lit(<<"m", "o", "n", "g", "o", "_", "b", "a", "c", "k", "u", "p", "_", "l",
        "a", "s", "t", "_", "f", "a", "i", "l", "u", "r", "e", "{", "m", "e", "s",
        "s", "a", "g", "e", "=", "\"">>)

FailureClose ==
    Lit(<<"\"", "}", " ">>)

RunAge_reversed(now, last_success) ==
    IF last_success # 0 THEN last_success - now ELSE 0

RunAge_unconditional(now, last_success) ==
    now - last_success

\* Line 48: now - last_success if last_success else 0.
RunAge(now, last_success) ==
    IF last_success # 0 THEN now - last_success ELSE 0

FailureGauge_never(last_failure) ==
    0

\* Line 51: 1 if last_failure else 0.
FailureGauge(last_failure) ==
    IF Truthy(last_failure) THEN 1 ELSE 0

BuildMetrics_ageFirst(loc, now) ==
    << PrefixLastSuccess \o IntToStr(RunAge(now, loc.last_success)),
       PrefixRunAge \o IntToStr(loc.last_success),
       PrefixArchiveBytes \o IntToStr(loc.last_size),
       PrefixTotalRuns \o IntToStr(loc.total),
       PrefixLastFailure \o PyStr(loc.last_failure) \o FailureClose
           \o IntToStr(FailureGauge(loc.last_failure)) >>

\* Lines 46-53: the list of five f-strings.
BuildMetrics(loc, now) ==
    << PrefixLastSuccess \o IntToStr(loc.last_success),
       PrefixRunAge \o IntToStr(RunAge(now, loc.last_success)),
       PrefixArchiveBytes \o IntToStr(loc.last_size),
       PrefixTotalRuns \o IntToStr(loc.total),
       PrefixLastFailure \o PyStr(loc.last_failure) \o FailureClose
           \o IntToStr(FailureGauge(loc.last_failure)) >>

----------------------------------------------------------------------------
(* The server: socketserver.TCPServer handles one request at a time *)

MaxTicks ==
    1

\* The values time.time() may return, a minute apart.
Clocks ==
    {1704110400 + 60 * k : k \in 0..MaxTicks}

Methods ==
    {"GET", "POST", "HEAD"}

Paths ==
    {"/", "/metrics", "/nonexistent", "/metrics?x=1"}

PathNotServed_inverted(path) ==
    path \in {"/metrics", "/"}

\* Line 15: self.path not in ("/metrics", "/").
PathNotServed(path) ==
    path \notin {"/metrics", "/"}

\* BaseHTTPRequestHandler calls do_<METHOD>; MetricsHandler defines do_GET
\* alone, and a method without a handler is answered 501.
HasHandler(method) ==
    method = "GET"

NoRequest ==
    [method |-> "", path |-> ""]

\* status = 0: nothing was sent (no request, or the handler raised before
\* send_response and the connection was closed).  Only a 200 response's
\* Content-Length and body are modelled.
NoResponse ==
    [status |-> 0, length |-> 0, body |-> <<>>]

ErrorResponse(code) ==
    [status |-> code, length |-> 0, body |-> <<>>]

NoPrev ==
    [valid |-> FALSE, obs |-> Missing, now |-> 0, body |-> <<>>]

VARIABLES
    file,           \* the state file: Missing, or an index into Files
    pc,             \* where the server is: idle, or a step of do_GET
    req,            \* the request being handled
    now,            \* build_metrics: now
    existed,        \* build_metrics: what STATE_FILE.exists() returned
    loc,            \* build_metrics: last_success, last_size, total, last_failure
    raised,         \* build_metrics: whether the except clause ran
    metrics,        \* do_GET: metrics
    resp,           \* what was written to the client
    seenAtExists,   \* history: the file when exists() looked
    seenAtRead,     \* history: the file when read_text() read
    prev            \* history: an earlier 200 response over an unchanged file

vars ==
    <<file, pc, req, now, existed, loc, raised, metrics, resp,
      seenAtExists, seenAtRead, prev>>

Init ==
    /\ file \in FileStates
    /\ pc = "idle"
    /\ req = NoRequest
    /\ now = 0
    /\ existed = FALSE
    /\ loc = Defaults
    /\ raised = FALSE
    /\ metrics = <<>>
    /\ resp = NoResponse
    /\ seenAtExists = Missing
    /\ seenAtRead = Missing
    /\ prev = NoPrev

\* The handler looks at the state file twice, at exists() and at read_text().
\* A change of the file once read_text() has returned cannot be told from one
\* made after the response, so the backup process is let in only between
\* requests and between the two looks.
FileObservable ==
    pc \in {"idle", "read"}

\* The backup process writes the state file.
BackupWrite(f) ==
    /\ FileObservable
    /\ f \in 1..Len(Files)
    /\ f # file
    /\ file' = f
    /\ UNCHANGED <<pc, req, now, existed, loc, raised, metrics, resp,
                   seenAtExists, seenAtRead, prev>>

\* The state file is removed.
BackupRemove ==
    /\ FileObservable
    /\ file # Missing
    /\ file' = Missing
    /\ UNCHANGED <<pc, req, now, existed, loc, raised, metrics, resp,
                   seenAtExists, seenAtRead, prev>>

\* A request whose method has no do_<METHOD>: send_error(501).
Unsupported(method, path) ==
    /\ pc = "idle"
    /\ ~HasHandler(method)
    /\ req' = [method |-> method, path |-> path]
    /\ resp' = ErrorResponse(501)
    /\ pc' = "done"
    /\ UNCHANGED <<file, now, existed, loc, raised, metrics,
                   seenAtExists, seenAtRead, prev>>

\* do_GET, lines 15-17: send_error(404) and return.
NotFound(path) ==
    /\ pc = "idle"
    /\ HasHandler("GET")
    /\ PathNotServed(path)
    /\ req' = [method |-> "GET", path |-> path]
    /\ resp' = ErrorResponse(404)
    /\ pc' = "done"
    /\ UNCHANGED <<file, now, existed, loc, raised, metrics,
                   seenAtExists, seenAtRead, prev>>

\* do_GET line 18 into build_metrics, lines 31-36: the clock is read, the
\* locals get their defaults, STATE_FILE.exists() is asked.
BuildBegin(path, clock) ==
    /\ pc = "idle"
    /\ HasHandler("GET")
    /\ ~PathNotServed(path)
    /\ req' = [method |-> "GET", path |-> path]
    /\ now' = clock
    /\ loc' = Defaults
    /\ raised' = FALSE
    /\ existed' = Exists(file)
    /\ seenAtExists' = file
    /\ seenAtRead' = Missing
    /\ pc' = IF Exists(file) THEN "read" ELSE "format"
    /\ UNCHANGED <<file, metrics, resp, prev>>

\* build_metrics, lines 37-45: the try statement, on the file as it is now.
ReadState ==
    /\ pc = "read"
    /\ LET r == TryExcept(file, loc)
       IN  /\ loc' = r.loc
           /\ raised' = r.raised
    /\ seenAtRead' = file
    /\ pc' = "format"
    /\ UNCHANGED <<file, req, now, existed, metrics, resp, seenAtExists, prev>>

\* build_metrics, lines 46-53.
Format ==
    /\ pc = "format"
    /\ metrics' = BuildMetrics(loc, now)
    /\ pc' = "write"
    /\ UNCHANGED <<file, req, now, existed, loc, raised, resp,
                   seenAtExists, seenAtRead, prev>>

\* Line 22: str(len(payload)), of the joined text and its encoding.
ContentLength(text, payload) ==
    Len(payload)

\* do_GET, lines 19-24.  When encode raises, nothing has been sent yet and the
\* exception leaves do_GET: the server closes the connection.
Write ==
    /\ pc = "write"
    /\ LET text == Join(<<10>>, metrics)
           enc  == EncodeUtf8(text)
       IN  resp' = IF enc.ok
                   THEN [status |-> 200,
                         length |-> ContentLength(text, enc.bytes),
                         body   |-> enc.bytes]
                   ELSE NoResponse
    /\ pc' = "done"
    /\ UNCHANGED <<file, req, now, existed, loc, raised, metrics,
                   seenAtExists, seenAtRead, prev>>

\* The request is over: serve_forever takes the next one.  Nothing of the
\* request is kept by the program; prev is history, and remembers this response
\* or an earlier one.
Finish ==
    /\ pc = "done"
    /\ \/ prev' = prev
       \/ /\ resp.status = 200
          /\ seenAtExists = seenAtRead
          /\ prev' = [valid |-> TRUE, obs |-> seenAtRead, now |-> now,
                      body |-> resp.body]
    /\ pc' = "idle"
    /\ req' = NoRequest
    /\ now' = 0
    /\ existed' = FALSE
    /\ loc' = Defaults
    /\ raised' = FALSE
    /\ metrics' = <<>>
    /\ resp' = NoResponse
    /\ seenAtExists' = Missing
    /\ seenAtRead' = Missing
    /\ UNCHANGED file

Next ==
    \/ \E f \in FileStates : BackupWrite(f)
    \/ BackupRemove
    \/ \E m \in Methods, p \in Paths : Unsupported(m, p)
    \/ \E p \in Paths : NotFound(p)
    \/ \E p \in Paths, c \in Clocks : BuildBegin(p, c)
    \/ ReadState
    \/ Format
    \/ Write
    \/ Finish

Spec ==
    Init /\ [][Next]_vars

----------------------------------------------------------------------------
(* Reading a response body back *)

Served ==
    {"/", "/metrics"}

NewlineAt(b) ==
    {i \in 1..Len(b) : b[i] = 10}

\* The positions of the newlines of b, in order.
Newlines(b) ==
    LET nl == NewlineAt(b)
    IN  [k \in 1..Cardinality(nl) |->
            CHOOSE i \in nl : Cardinality({j \in nl : j < i}) = k - 1]

LineCount(b) ==
    Cardinality(NewlineAt(b)) + 1

\* Where the k-th line of b starts, cuts being Newlines(b).
LineStart(cuts, k) ==
    IF k = 1 THEN 1 ELSE cuts[k - 1] + 1

\* The k-th line of b, k <= Len(cuts) + 1.
Line(b, cuts, k) ==
    SubSeq(b, LineStart(cuts, k),
           IF k = Len(cuts) + 1 THEN Len(b) ELSE cuts[k] - 1)

StartsWith(s, prefix) ==
    Len(s) >= Len(prefix) /\ SubSeq(s, 1, Len(prefix)) = prefix

\* The integer a metric line prints after its name.
MetricValue(line, prefix) ==
    IF StartsWith(line, prefix)
    THEN StrToInt(SubSeq(line, Len(prefix) + 1, Len(line)))
    ELSE [ok |-> FALSE, n |-> 0]

\* The four numeric gauges of a body, when it has its five lines at least.
Gauges(b) ==
    LET cuts == Newlines(b)
    IN  IF Len(cuts) < 4
        THEN [ok |-> FALSE, timestamp |-> 0, age |-> 0, bytes |-> 0, total |-> 0]
        ELSE LET t == MetricValue(Line(b, cuts, 1), PrefixLastSuccess)
                 a == MetricValue(Line(b, cuts, 2), PrefixRunAge)
                 z == MetricValue(Line(b, cuts, 3), PrefixArchiveBytes)
                 n == MetricValue(Line(b, cuts, 4), PrefixTotalRuns)
             IN  [ok |-> t.ok /\ a.ok /\ z.ok /\ n.ok,
                  timestamp |-> t.n, age |-> a.n, bytes |-> z.n, total |-> n.n]

\* The failure gauge of a body: everything from the fifth line on, which is
\* name{message="<message>"} <gauge>.
Failure(b) ==
    LET cuts == Newlines(b)
        l == IF Len(cuts) < 4 THEN <<>> ELSE SubSeq(b, cuts[4] + 1, Len(b))
        n == Len(l)
        k == Len(PrefixLastFailure)
    IN  IF /\ StartsWith(l, PrefixLastFailure)
           /\ n >= k + 4
           /\ SubSeq(l, n - 3, n - 1) = FailureClose
           /\ l[n] \in {48, 49}
        THEN [ok |-> TRUE, message |-> SubSeq(l, k + 1, n - 4), gauge |-> l[n] - 48]
        ELSE [ok |-> FALSE, message |-> <<>>, gauge |-> 0]

Answered ==
    pc = "done"

Answered200 ==
    pc = "done" /\ resp.status = 200

ServedRequest ==
    req.method = "GET" /\ req.path \in Served

\* The try statement has run for the request in hand.
AfterRead ==
    pc \in {"format", "write", "done"} /\ existed

----------------------------------------------------------------------------
(* The claims *)

\* C1: whenever the try statement raised on a state file that was there to be
\* read, the snapshot has last_success, last_size and total all 0 and the
\* failure message "state_parse_error".
C1_ParseFailureZeroSnapshot ==
    (AfterRead /\ raised /\ seenAtRead # Missing)
        => /\ loc.last_success = 0
           /\ loc.last_size = 0
           /\ loc.total = 0
           /\ loc.last_failure = JStr(STATE_PARSE_ERROR)

C3_ServedAlways200 ==
    (Answered /\ ServedRequest)
        => /\ resp.status = 200
           /\ Gauges(resp.body).ok
           /\ Failure(resp.body).ok

\* C4: when the state file does not exist as the handler looks for it, a GET
\* of "/" or "/metrics" is answered 200 with the four numeric gauges 0, the
\* failure gauge 0 and an empty message.
C4_MissingFileAllZero ==
    (Answered /\ ServedRequest /\ seenAtExists = Missing)
        => /\ resp.status = 200
           /\ Gauges(resp.body)
                = [ok |-> TRUE, timestamp |-> 0, age |-> 0, bytes |-> 0, total |-> 0]
           /\ Failure(resp.body) = [ok |-> TRUE, message |-> <<>>, gauge |-> 0]

C4_Witness ==
    /\ Answered200
    /\ req.path = "/metrics"
    /\ seenAtExists = Missing
    /\ Gauges(resp.body).ok

\* C5 as stated: in every 200 response the run age is non-negative.
C5_AgeNonNegative ==
    Answered200
        => LET g == Gauges(resp.body)
           IN  g.ok /\ g.age >= 0

\* C5 as amended: in every 200 response the run age is non-negative whenever
\* the last_success timestamp it prints is not later than the clock the
\* request read.
C5_AgeNonNegativeUnlessFuture ==
    Answered200
        => LET g == Gauges(resp.body)
           IN  g.ok /\ (g.timestamp <= now => g.age >= 0)

C5_Witness ==
    /\ Answered200
    /\ Gauges(resp.body).ok
    /\ Gauges(resp.body).timestamp # 0
    /\ Gauges(resp.body).timestamp < now
    /\ Gauges(resp.body).age > 0

\* C6: in every 200 response the run age is now minus the timestamp the same
\* response prints when that timestamp is not 0, and 0 when it is 0.
C6_AgeIsNowMinusTimestamp ==
    Answered200
        => LET g == Gauges(resp.body)
           IN  /\ g.ok
               /\ g.age = IF g.timestamp # 0 THEN now - g.timestamp ELSE 0

C6_Witness ==
    /\ Answered200
    /\ Gauges(resp.body).ok
    /\ Gauges(resp.body).timestamp # 0
    /\ Gauges(resp.body).age = now - Gauges(resp.body).timestamp
    /\ Gauges(resp.body).age # 0

\* The state file the try statement read without raising, as a record.
RecordRead ==
    Files[seenAtRead]

ReadWellFormed ==
    existed /\ ~raised /\ seenAtRead # Missing

\* C7: in every 200 response the failure gauge is 1 exactly when the message in
\* the label is not empty; for a record read without error the message is the
\* record's last_failure string as it stands, and an absent or empty
\* last_failure gives an empty message and gauge 0.
C7_FailureGaugeIffMessage ==
    Answered200
        => LET f == Failure(resp.body)
           IN  /\ f.ok
               /\ (f.gauge = 1) = (f.message # <<>>)
               /\ (ReadWellFormed /\ RecordRead.last_failure.t = "str")
                    => f.message = Utf8Bytes(RecordRead.last_failure.s)
               /\ (ReadWellFormed /\ RecordRead.last_failure \in {JAbsent, JStr(<<>>)})
                    => (f.message = <<>> /\ f.gauge = 0)

C7_Witness ==
    /\ Answered200
    /\ ReadWellFormed
    /\ RecordRead.last_failure = JStr(DiskFull)
    /\ Failure(resp.body) = [ok |-> TRUE, message |-> DiskFull, gauge |-> 1]

\* C8: every 200 response body is exactly five lines, in the order
\* last_success_timestamp, last_run_age_seconds, last_archive_bytes,
\* total_runs, last_failure, and Content-Length is the body's length in bytes.
C8_ExactlyFiveLines ==
    Answered200
        => LET cuts == Newlines(resp.body)
           IN  /\ LineCount(resp.body) = 5
               /\ StartsWith(Line(resp.body, cuts, 1), PrefixLastSuccess)
               /\ StartsWith(Line(resp.body, cuts, 2), PrefixRunAge)
               /\ StartsWith(Line(resp.body, cuts, 3), PrefixArchiveBytes)
               /\ StartsWith(Line(resp.body, cuts, 4), PrefixTotalRuns)
               /\ StartsWith(Line(resp.body, cuts, 5), PrefixLastFailure)
               /\ resp.length = Len(resp.body)

\* The body a request reading the clock at t gets from version f of the state
\* file and from nothing else.
BodyOf(f, t) ==
    LET l == IF Exists(f) THEN TryExcept(f, Defaults).loc ELSE Defaults
    IN  Utf8Bytes(Join(<<10>>, BuildMetrics(l, t)))

\* C9: a request reads, then formats, then writes, one request at a time, and
\* every 200 response is the one some whole version of the state file (or its
\* absence) gives: none comes from a file that vanished between exists() and
\* read_text().
C9_ResponseFromOneVersion ==
    /\ pc = "write" => metrics # <<>>
    /\ pc = "idle" => req = NoRequest
    /\ Answered200
        => /\ ~(existed /\ seenAtRead = Missing)
           /\ \E f \in {seenAtExists, seenAtRead} : resp.body = BodyOf(f, now)

\* C10: a 200 response over the same unchanged state file as an earlier one,
\* whatever was asked in between, prints the same timestamp, archive bytes,
\* total runs and failure gauge, and its run age is the earlier one plus the
\* difference of the two clock readings (both 0 when the timestamp is 0).
C10_SameFileSameMetrics ==
    (Answered200 /\ prev.valid /\ seenAtExists = seenAtRead /\ prev.obs = seenAtRead)
        => LET g == Gauges(resp.body)
               h == Gauges(prev.body)
           IN  /\ g.ok /\ h.ok
               /\ g.timestamp = h.timestamp
               /\ g.bytes = h.bytes
               /\ g.total = h.total
               /\ Failure(resp.body) = Failure(prev.body)
               /\ g.age - h.age = IF g.timestamp # 0 THEN now - prev.now ELSE 0

C10_Witness ==
    /\ Answered200
    /\ prev.valid
    /\ seenAtExists = seenAtRead
    /\ prev.obs = seenAtRead
    /\ prev.now # now
    /\ Gauges(resp.body).ok
    /\ Gauges(resp.body).timestamp # 0

====
